---- MODULE Spec2Model ----
(***************************************************************************)
(* Model of src/main.py: the grid assembler (shapefile_to_grid), the two   *)
(* resamplers (thiessen_interpolation, bilinear_interpolation) and the gap *)
(* filler (idw_interpolation).                                             *)
(*                                                                         *)
(* Numbers.  A cell value is a record [nan, n, d]: either the missing      *)
(* sentinel (np.nan) or the exact rational n/d in lowest terms.  Python    *)
(* floats are modelled by exact rationals: float64 rounding is not         *)
(* modelled.  NaN behaves as in IEEE-754: every sum or product with a NaN  *)
(* operand is NaN, 0 * NaN included.                                       *)
(*                                                                         *)
(* A factor is a pair <<p, q>> with q > 0 standing for the real p / q.     *)
(* A power is an even integer, so that d ** power is a rational function   *)
(* of the squared index distance.                                          *)
(***************************************************************************)
EXTENDS Integers, Naturals, Sequences, FiniteSets, TLC

VARIABLES pc, samples, Z_in, op, factor, k, power, out

vars == <<pc, samples, Z_in, op, factor, k, power, out>>

(***************************************************************************)
(* Bounds of the model.                                                    *)
(***************************************************************************)
MaxCells == 4
MaxVal == 2
MaxFNum == 3
MaxFDen == 2
MaxK == 3
MaxSamples == 3
MaxCoord == 1
MaxZ == 2

(***************************************************************************)
(* Exact arithmetic on cell values.                                        *)
(***************************************************************************)
Abs(a) == IF a < 0 THEN -a ELSE a

RECURSIVE GCD(_, _)
GCD(a, b) == IF b = 0 THEN a ELSE GCD(b, a % b)

Rat(n, d) ==
    LET s == IF d < 0 THEN -1 ELSE 1
        g == GCD(Abs(n), Abs(d))
    IN  [nan |-> FALSE, n |-> (s * n) \div g, d |-> (s * d) \div g]

NaN == [nan |-> TRUE, n |-> 0, d |-> 1]

IsNaN(a) == a.nan

FromInt(i) == Rat(i, 1)

Add(a, b) == IF a.nan \/ b.nan THEN NaN ELSE Rat(a.n * b.d + b.n * a.d, a.d * b.d)

Sub(a, b) == IF a.nan \/ b.nan THEN NaN ELSE Rat(a.n * b.d - b.n * a.d, a.d * b.d)

Mul(a, b) == IF a.nan \/ b.nan THEN NaN ELSE Rat(a.n * b.n, a.d * b.d)

\* a / b; a zero divisor gives NaN (numpy: 0/0) and is never reached with
\* positive weights.
Div(a, b) == IF a.nan \/ b.nan \/ b.n = 0 THEN NaN ELSE Rat(a.n * b.d, a.d * b.n)

\* a <= b on non-missing values.
Leq(a, b) == a.n * b.d <= b.n * a.d

RECURSIVE Pow(_, _)
Pow(b, e) == IF e = 0 THEN 1 ELSE b * Pow(b, e - 1)

\* Python int(): truncation toward zero of n / d, d > 0.
Trunc(n, d) == IF n >= 0 THEN n \div d ELSE -((-n) \div d)

\* np.floor of n / d, d > 0.
Floor(n, d) == n \div d

\* Python 3 round(): nearest integer, ties to the even one; n / d, d > 0.
PyRound(n, d) ==
    LET fl == n \div d
        r  == n % d
    IN  IF 2 * r < d THEN fl
        ELSE IF 2 * r > d THEN fl + 1
        ELSE IF fl % 2 = 0 THEN fl ELSE fl + 1

Min(a, b) == IF a < b THEN a ELSE b

Max(a, b) == IF a > b THEN a ELSE b

(***************************************************************************)
(* Grids: a numpy 2-D array of shape (M, N), 0-based indices.              *)
(***************************************************************************)
Cells(M, N) == (0 .. M - 1) \X (0 .. N - 1)

Grid(M, N, f) == [M |-> M, N |-> N, v |-> f]

NoGrid == Grid(0, 0, [c \in {} |-> NaN])

Shape(Z) == <<Z.M, Z.N>>

\* Whether Z[i, j] is a legal numpy index (negative indices wrap around).
InRange(Z, i, j) == i >= -Z.M /\ i < Z.M /\ j >= -Z.N /\ j < Z.N

\* Z[i, j].  An illegal index raises IndexError before any value is used
\* (see Resample), so the value given for it here is never part of a result.
At(Z, i, j) ==
    IF InRange(Z, i, j)
    THEN Z.v[<<IF i < 0 THEN i + Z.M ELSE i, IF j < 0 THEN j + Z.N ELSE j>>]
    ELSE NaN

\* The result of a call: status "ok" and what was returned, or the name of
\* the exception raised (then nothing is returned and Z is NoGrid).
\* reads: the source indices the call computed and read; nbrs: the known
\* cells queried for each filled cell; xs, ys: the axes of an assembled grid.
Result(status, Z, reads, nbrs) ==
    [status |-> status, Z |-> Z, reads |-> reads, nbrs |-> nbrs,
     xs |-> <<>>, ys |-> <<>>]

NoNbrs == [c \in {} |-> {}]

Raised(exc, reads) == Result(exc, NoGrid, reads, NoNbrs)

NoResult == Result("none", NoGrid, {}, NoNbrs)

(***************************************************************************)
(* thiessen_interpolation / bilinear_interpolation                         *)
(***************************************************************************)
\* Mutant of OutDim: the size rounded up instead of truncated.
OutDimCeil(len, f) == -((-(len * f[1])) \div f[2])

\* M_out, N_out = int(M * factor), int(N * factor)
OutDim(len, f) == Trunc(len * f[1], f[2])

\* i_nn = min(max(int(round(i_out / factor)), 0), len - 1)
NearestIdx(i_out, f, len) ==
    Min(Max(PyRound(i_out * f[2], f[1]), 0), len - 1)

\* Mutant of ThiessenSrc: row and column positions exchanged.
ThiessenSrcTransposed(Z, f, c) ==
    <<NearestIdx(c[2], f, Z.M), NearestIdx(c[1], f, Z.N)>>

\* The source cell (i_nn, j_nn) of output cell c = (i_out, j_out).
ThiessenSrc(Z, f, c) == <<NearestIdx(c[1], f, Z.M), NearestIdx(c[2], f, Z.N)>>

\* The body shared by both resamplers: allocate np.empty((M_out, N_out)),
\* which raises ValueError on a negative dimension, then fill every output
\* cell; reading outside the input raises IndexError.  reads: the indices
\* read over all output cells; vals: the value computed for each cell.
Resample(Z, f, reads, vals) ==
    LET Mo == OutDim(Z.M, f)
        No == OutDim(Z.N, f)
    IN  IF Mo < 0 \/ No < 0 THEN Raised("ValueError", {})
        ELSE IF \E r \in reads : ~InRange(Z, r[1], r[2])
             THEN Raised("IndexError", reads)
        ELSE Result("ok", Grid(Mo, No, vals), reads, NoNbrs)

OutCells(Z, f) == Cells(OutDim(Z.M, f), OutDim(Z.N, f))

thiessen_interpolation(Z, f) ==
    LET src(c) == ThiessenSrc(Z, f, c)
    IN  Resample(Z, f, {src(c) : c \in OutCells(Z, f)},
                 [c \in OutCells(Z, f) |-> At(Z, src(c)[1], src(c)[2])])

\* i0 = floor(i_out / factor)
LowIdx(i_out, f) == Floor(i_out * f[2], f[1])

\* Mutant of HighIdx: the upper corner without the clamp to len - 1.
HighIdxNoClamp(i0, len) == i0 + 1

\* i1 = min(i0 + 1, len - 1)
HighIdx(i0, len) == Min(i0 + 1, len - 1)

\* alpha = i_out / factor - i0
Frac(i_out, f) == Sub(Rat(i_out * f[2], f[1]), FromInt(LowIdx(i_out, f)))

\* Mutant of Blend: the weights a and 1 - a (b and 1 - b) exchanged.
BlendSwapped(a, b, s00, s10, s01, s11) ==
    LET one == FromInt(1)
    IN  Add(Add(Add(Mul(Mul(a, b), s00),
                    Mul(Mul(Sub(one, a), b), s10)),
                Mul(Mul(a, Sub(one, b)), s01)),
            Mul(Mul(Sub(one, a), Sub(one, b)), s11))

\* (1-a)(1-b) s00 + a (1-b) s10 + (1-a) b s01 + a b s11
Blend(a, b, s00, s10, s01, s11) ==
    LET one == FromInt(1)
    IN  Add(Add(Add(Mul(Mul(Sub(one, a), Sub(one, b)), s00),
                    Mul(Mul(a, Sub(one, b)), s10)),
                Mul(Mul(Sub(one, a), b), s01)),
            Mul(Mul(a, b), s11))

BilinearReads(Z, f, c) ==
    LET i0 == LowIdx(c[1], f)
        j0 == LowIdx(c[2], f)
        i1 == HighIdx(i0, Z.M)
        j1 == HighIdx(j0, Z.N)
    IN  {<<i0, j0>>, <<i1, j0>>, <<i0, j1>>, <<i1, j1>>}

BilinearValue(Z, f, c) ==
    LET i0 == LowIdx(c[1], f)
        j0 == LowIdx(c[2], f)
        i1 == HighIdx(i0, Z.M)
        j1 == HighIdx(j0, Z.N)
    IN  Blend(Frac(c[1], f), Frac(c[2], f),
              At(Z, i0, j0), At(Z, i1, j0), At(Z, i0, j1), At(Z, i1, j1))

bilinear_interpolation(Z, f) ==
    Resample(Z, f, UNION {BilinearReads(Z, f, c) : c \in OutCells(Z, f)},
             [c \in OutCells(Z, f) |-> BilinearValue(Z, f, c)])

(***************************************************************************)
(* idw_interpolation                                                       *)
(***************************************************************************)
\* known = [(i, j) ... if not np.isnan(Z_in[i, j])]
Known(Z) == {c \in Cells(Z.M, Z.N) : ~IsNaN(Z.v[c])}

\* The cells the loop rewrites: np.isnan(Z_out[i, j]) on the copy, where
\* cell (i, j) has not been written before it is visited.
Missing(Z) == {c \in Cells(Z.M, Z.N) : IsNaN(Z.v[c])}

\* Squared Euclidean distance between two (row, column) indices.
Dist2(a, b) == (a[1] - b[1]) * (a[1] - b[1]) + (a[2] - b[2]) * (a[2] - b[2])

\* tree.query((i, j), k=kk): the possible sets of the kk nearest known cells;
\* the order among equidistant cells is the library's choice.
NearestSets(Z, c, kk) ==
    {S \in SUBSET Known(Z) :
        /\ Cardinality(S) = kk
        /\ \A a \in S, b \in Known(Z) \ S : Dist2(c, a) <= Dist2(c, b)}

\* w = 1.0 / (max(d, 1e-12) ** power) for an even power, from d * d.  A
\* missing cell and a known cell are distinct cells, so d >= 1 and the floor
\* 1e-12 never applies.
Weight(d2, pw) ==
    IF pw >= 0 THEN Rat(1, Pow(d2, pw \div 2)) ELSE Rat(Pow(d2, (-pw) \div 2), 1)

\* w.sum()
RECURSIVE SumW(_, _, _)
SumW(S, c, pw) ==
    IF S = {} THEN FromInt(0)
    ELSE LET a == CHOOSE a \in S : TRUE
         IN  Add(Weight(Dist2(c, a), pw), SumW(S \ {a}, c, pw))

\* np.dot(w, [values[idx] for idx in idxs])
RECURSIVE DotWV(_, _, _, _)
DotWV(Z, S, c, pw) ==
    IF S = {} THEN FromInt(0)
    ELSE LET a == CHOOSE a \in S : TRUE
         IN  Add(Mul(Weight(Dist2(c, a), pw), Z.v[a]), DotWV(Z, S \ {a}, c, pw))

\* Mutant of Estimate: the weighted sum not divided by w.sum().
EstimateUnnormalised(Z, c, S, pw) == DotWV(Z, S, c, pw)

\* np.dot(w, values) / w.sum()
Estimate(Z, c, S, pw) == Div(DotWV(Z, S, c, pw), SumW(S, c, pw))

\* The neighbour sets the queries of one call may return, one per missing cell.
NbrChoices(Z, kk) ==
    {ch \in [Missing(Z) -> SUBSET Known(Z)] :
        \A c \in Missing(Z) : ch[c] \in NearestSets(Z, c, kk)}

\* Mutant of IdwCell: the output allocated with zeros instead of copied.
IdwCellNoCopy(Z, c, ch, pw) ==
    IF IsNaN(Z.v[c]) THEN Estimate(Z, c, ch[c], pw) ELSE FromInt(0)

\* Z_out[i, j] after the loop: Z_in.copy(), rewritten where it is NaN.
IdwCell(Z, c, ch, pw) ==
    IF IsNaN(Z.v[c]) THEN Estimate(Z, c, ch[c], pw) ELSE Z.v[c]

\* The copy and the loop over all cells.  With a missing cell to fill,
\* tree.query raises ValueError for k < 1; for k = 1 it returns a scalar
\* index, so that iterating idxs raises TypeError.
IdwFill(Z, kq, pw, ch) ==
    LET kk == Min(kq, Cardinality(Known(Z)))
    IN  IF Missing(Z) # {} /\ kk < 1 THEN Raised("ValueError", {})
        ELSE IF Missing(Z) # {} /\ kk = 1 THEN Raised("TypeError", {})
        ELSE Result("ok",
                    Grid(Z.M, Z.N,
                         [c \in Cells(Z.M, Z.N) |-> IdwCell(Z, c, ch, pw)]),
                    {}, ch)

\* Mutant of idw_interpolation: no known cell, and the input is returned.
idw_interpolation_unchecked(Z, kq, pw, ch) ==
    IF Known(Z) = {} THEN Result("ok", Z, {}, NoNbrs) ELSE IdwFill(Z, kq, pw, ch)

\* KDTree(known) raises ValueError on an empty list of known cells.
idw_interpolation(Z, kq, pw, ch) ==
    IF Known(Z) = {} THEN Raised("ValueError", {}) ELSE IdwFill(Z, kq, pw, ch)

(***************************************************************************)
(* shapefile_to_grid                                                       *)
(***************************************************************************)
\* A sample is <<x, y, z>>: a point's coordinates and its z_field value.
SetMin(S) == CHOOSE m \in S : \A o \in S : m <= o

\* np.sort(... .unique())
RECURSIVE SortedSeq(_)
SortedSeq(S) ==
    IF S = {} THEN <<>> ELSE <<SetMin(S)>> \o SortedSeq(S \ {SetMin(S)})

\* x_to_j / y_to_i: the 0-based position of a coordinate on its axis.
IndexOf(axis, x) == (CHOOSE i \in 1 .. Len(axis) : axis[i] = x) - 1

\* Mutant of FillFrom: a cell already written is not overwritten.
RECURSIVE FillFromFirstWins(_, _, _, _, _)
FillFromFirstWins(f, smp, t, xs, ys) ==
    IF t > Len(smp) THEN f
    ELSE LET c == <<IndexOf(ys, smp[t][2]), IndexOf(xs, smp[t][1])>>
         IN  FillFromFirstWins(IF IsNaN(f[c]) THEN [f EXCEPT ![c] = smp[t][3]] ELSE f,
                               smp, t + 1, xs, ys)

\* The loop over gdf.iterrows(): samples t .. Len(smp) written in order.
RECURSIVE FillFrom(_, _, _, _, _)
FillFrom(f, smp, t, xs, ys) ==
    IF t > Len(smp) THEN f
    ELSE FillFrom([f EXCEPT ![<<IndexOf(ys, smp[t][2]), IndexOf(xs, smp[t][1])>>]
                              = smp[t][3]],
                  smp, t + 1, xs, ys)

shapefile_to_grid(smp) ==
    LET xs == SortedSeq({smp[t][1] : t \in 1 .. Len(smp)})
        ys == SortedSeq({smp[t][2] : t \in 1 .. Len(smp)})
        nx == Len(xs)
        ny == Len(ys)
        Z  == Grid(ny, nx, FillFrom([c \in Cells(ny, nx) |-> NaN], smp, 1, xs, ys))
    IN  [Result("ok", Z, {}, NoNbrs) EXCEPT !.xs = xs, !.ys = ys]

(***************************************************************************)
(* Inputs                                                                  *)
(***************************************************************************)
CellVals == {NaN} \cup {FromInt(i) : i \in 1 .. MaxVal}

Shapes == {s \in (0 .. MaxCells) \X (0 .. MaxCells) : s[1] * s[2] <= MaxCells}

GridsOf(s) == {Grid(s[1], s[2], f) : f \in [Cells(s[1], s[2]) -> CellVals]}

\* [[1, 2, 3], [4, 5, 6], [7, 8, 9]]
Grid3x3 == Grid(3, 3, [c \in Cells(3, 3) |-> FromInt(3 * c[1] + c[2] + 1)])

\* [[1, NaN], [3, 4]]
GridScenario ==
    Grid(2, 2, [c \in Cells(2, 2) |->
                  IF c = <<0, 1>> THEN NaN ELSE FromInt(2 * c[1] + c[2] + 1)])

Grids == UNION {GridsOf(s) : s \in Shapes} \cup {Grid3x3, GridScenario}

Factors == (-1 .. MaxFNum) \X (1 .. MaxFDen)

Ks == 0 .. MaxK

Powers == {-2, 0, 2, 4}

Samples == (0 .. MaxCoord) \X (0 .. MaxCoord) \X {FromInt(z) : z \in 1 .. MaxZ}

SampleSeqs == UNION {[1 .. n -> Samples] : n \in 1 .. MaxSamples}

(***************************************************************************)
(* The state machine: one call of one function on one input.               *)
(***************************************************************************)
Idle ==
    /\ op = "none"
    /\ factor = <<1, 1>>
    /\ k = 4
    /\ power = 2
    /\ out = NoResult

Init ==
    /\ pc = "grid"
    /\ samples = <<>>
    /\ Z_in \in Grids
    /\ Idle

InitAssemble ==
    /\ pc = "samples"
    /\ samples \in SampleSeqs
    /\ Z_in = NoGrid
    /\ Idle

Thiessen ==
    /\ pc = "grid"
    /\ \E f \in Factors :
          /\ factor' = f
          /\ out' = thiessen_interpolation(Z_in, f)
    /\ op' = "thiessen"
    /\ pc' = "done"
    /\ UNCHANGED <<samples, Z_in, k, power>>

Bilinear ==
    /\ pc = "grid"
    /\ \E f \in Factors :
          /\ factor' = f
          /\ out' = bilinear_interpolation(Z_in, f)
    /\ op' = "bilinear"
    /\ pc' = "done"
    /\ UNCHANGED <<samples, Z_in, k, power>>

IDW ==
    /\ pc = "grid"
    /\ \E kq \in Ks, pw \in Powers :
          \E ch \in NbrChoices(Z_in, Min(kq, Cardinality(Known(Z_in)))) :
             /\ k' = kq
             /\ power' = pw
             /\ out' = idw_interpolation(Z_in, kq, pw, ch)
    /\ op' = "idw"
    /\ pc' = "done"
    /\ UNCHANGED <<samples, Z_in, factor>>

ShapefileToGrid ==
    /\ pc = "samples"
    /\ out' = shapefile_to_grid(samples)
    /\ op' = "shapefile_to_grid"
    /\ pc' = "done"
    /\ UNCHANGED <<samples, Z_in, factor, k, power>>

Next == Thiessen \/ Bilinear \/ IDW

Spec == Init /\ [][Next]_vars

NextAssemble == ShapefileToGrid

SpecAssemble == InitAssemble /\ [][NextAssemble]_vars

(***************************************************************************)
(* Properties                                                              *)
(***************************************************************************)
Resampled == pc = "done" /\ op \in {"thiessen", "bilinear"}

Filled == pc = "done" /\ op = "idw"

\* Output cell c of a resampler maps to an input grid point: alpha = beta = 0.
Aligned(c) == (c[1] * factor[2]) % factor[1] = 0 /\ (c[2] * factor[2]) % factor[1] = 0

\* C1.  Shape law: for every factor > 0 both resamplers return a grid of
\* shape (floor(M * f), floor(N * f)).
C1_ShapeLaw ==
    (Resampled /\ factor[1] > 0) =>
        /\ out.status = "ok"
        /\ Shape(out.Z) = <<(Z_in.M * factor[1]) \div factor[2],
                            (Z_in.N * factor[1]) \div factor[2]>>

\* Bilinear resampling of the 3x3 grid by the non-integer factor 3/2 gave 4x4.
C1_Witness ==
    /\ Resampled /\ op = "bilinear"
    /\ Z_in = Grid3x3 /\ factor = <<3, 2>>
    /\ out.status = "ok" /\ Shape(out.Z) = <<4, 4>>

\* C2.  With a known cell, k >= 1 and power > 0, the gap filler returns a grid
\* of the same shape with no missing cell, every cell that was missing
\* holding the weighted estimate over min(k, |known|) nearest known cells of
\* the input.
C2_FillsEveryMissingCell ==
    (Filled /\ Known(Z_in) # {} /\ k > 0 /\ power > 0) =>
        /\ out.status = "ok"
        /\ Shape(out.Z) = Shape(Z_in)
        /\ Missing(out.Z) = {}
        /\ \A c \in Missing(Z_in) :
              \E S \in NearestSets(Z_in, c, Min(k, Cardinality(Known(Z_in)))) :
                 out.Z.v[c] = Estimate(Z_in, c, S, power)

\* C3.  A non-positive factor, k or power is rejected: the call raises and
\* returns no grid.
C3_InvalidParameterRejected ==
    (\/ Resampled /\ factor[1] <= 0
     \/ Filled /\ (k <= 0 \/ power <= 0)) => out.status # "ok"

\* C4.  With no known cell (all cells missing, or no cell at all) the gap
\* filler raises and returns no grid.
C4_NoKnownCellRaises ==
    (Filled /\ Known(Z_in) = {}) =>
        /\ out.status \notin {"ok", "none"}
        /\ out.Z = NoGrid

\* The gap filler was called on a grid of missing cells only, and raised.
C4_Witness ==
    /\ Filled
    /\ Z_in.M = 2 /\ Z_in.N = 2 /\ Missing(Z_in) = Cells(2, 2)
    /\ out.status = "ValueError"

\* C5 as claimed.  An output cell of the bilinear resampler that maps to an
\* input grid point (i0, j0) holds Z_in[i0, j0], whatever the other corners.
C5_CornerExactWhateverCorners ==
    (Resampled /\ op = "bilinear" /\ factor[1] > 0 /\ out.status = "ok") =>
        \A c \in Cells(out.Z.M, out.Z.N) :
            Aligned(c) =>
                out.Z.v[c] = At(Z_in, LowIdx(c[1], factor), LowIdx(c[2], factor))

\* C5 as amended.  Such a cell holds Z_in[i0, j0] when none of the other three
\* corner cells read for it is missing, and is missing when one of them is.
C5_CornerExactKnownCorners ==
    (Resampled /\ op = "bilinear" /\ factor[1] > 0 /\ out.status = "ok") =>
        \A c \in Cells(out.Z.M, out.Z.N) :
            Aligned(c) =>
                IF \E r \in BilinearReads(Z_in, factor, c) : IsNaN(At(Z_in, r[1], r[2]))
                THEN IsNaN(out.Z.v[c])
                ELSE out.Z.v[c] = At(Z_in, LowIdx(c[1], factor), LowIdx(c[2], factor))

\* An aligned output cell whose four corners are four known cells, not all
\* of one value, holds the value of (i0, j0).
C5_Witness ==
    /\ Resampled /\ op = "bilinear" /\ factor[1] > 0 /\ out.status = "ok"
    /\ \E c \in Cells(out.Z.M, out.Z.N) :
          /\ Aligned(c)
          /\ Cardinality(BilinearReads(Z_in, factor, c)) = 4
          /\ \A r \in BilinearReads(Z_in, factor, c) : ~IsNaN(At(Z_in, r[1], r[2]))
          /\ \E r \in BilinearReads(Z_in, factor, c) :
                At(Z_in, r[1], r[2]) # out.Z.v[c]
          /\ out.Z.v[c] = At(Z_in, LowIdx(c[1], factor), LowIdx(c[2], factor))

\* C6 as claimed, for k >= 1 and power > 0.  The gap filler leaves every known
\* cell unchanged, and on every grid without a missing cell it returns a grid
\* identical to the input.
C6_FrameEveryGrid ==
    (Filled /\ k > 0 /\ power > 0) =>
        /\ out.status = "ok" =>
              \A c \in Known(Z_in) : out.Z.v[c] = Z_in.v[c]
        /\ Missing(Z_in) = {} => (out.status = "ok" /\ out.Z = Z_in)

\* C6 as amended, for every k and power.  The same, the identical copy being
\* returned on every grid that has at least one cell and no missing cell.
C6_FrameNonEmptyGrid ==
    Filled =>
        /\ out.status = "ok" =>
              /\ Shape(out.Z) = Shape(Z_in)
              /\ \A c \in Known(Z_in) : out.Z.v[c] = Z_in.v[c]
        /\ (Missing(Z_in) = {} /\ Cells(Z_in.M, Z_in.N) # {}) =>
              (out.status = "ok" /\ out.Z = Z_in)

\* A 2x2 grid without a missing cell was returned unchanged for k = 1.
C6_Witness ==
    /\ Filled /\ k = 1
    /\ Shape(Z_in) = <<2, 2>> /\ Missing(Z_in) = {}
    /\ out.status = "ok" /\ out.Z = Z_in

\* C7.  For every factor > 0 every source index read by a resampler lies in
\* [0, M-1] x [0, N-1] and the call succeeds; Thiessen on the 3x3 grid
\* [[1,2,3],[4,5,6],[7,8,9]] with factor 2 gives a 6x6 grid with 9 at (5, 5).
C7_BoundarySafety ==
    (Resampled /\ factor[1] > 0) =>
        /\ out.status = "ok"
        /\ out.reads \subseteq Cells(Z_in.M, Z_in.N)
        /\ (op = "thiessen" /\ Z_in = Grid3x3 /\ factor[1] = 2 * factor[2]) =>
              (Shape(out.Z) = <<6, 6>> /\ out.Z.v[<<5, 5>>] = FromInt(9))

\* Thiessen resampling of the 3x3 grid by 2 read cell (2, 2) for cell (5, 5).
C7_Witness ==
    /\ Resampled /\ op = "thiessen"
    /\ Z_in = Grid3x3 /\ factor = <<2, 1>>
    /\ out.status = "ok" /\ <<2, 2>> \in out.reads
    /\ out.Z.v[<<5, 5>>] = FromInt(9)

C9_ThiessenIdentity ==
    (Resampled /\ op = "thiessen" /\ factor[1] = factor[2]) =>
        (out.status = "ok" /\ out.Z = Z_in)

\* Thiessen resampling of [[1, NaN], [3, 4]] by 1 returned it.
C9_Witness ==
    /\ Resampled /\ op = "thiessen" /\ factor = <<1, 1>>
    /\ Z_in = GridScenario /\ out.Z = GridScenario

\* The samples at position (x, y), by their place in the sequence.
Hits(x, y) ==
    {t \in 1 .. Len(samples) : samples[t][1] = x /\ samples[t][2] = y}

SetMax(S) == CHOOSE m \in S : \A o \in S : o <= m

Ascending(axis) == \A i \in 1 .. Len(axis) - 1 : axis[i] < axis[i + 1]

Range(axis) == {axis[i] : i \in 1 .. Len(axis)}

\* C10.  The assembled axes are the distinct x and y values in strictly
\* ascending order; the grid has shape (len(ys), len(xs)); the cell of (y, x)
\* holds the value of the last sample at (x, y), or the missing sentinel when
\* there is none.
C10_AssembledGrid ==
    (pc = "done" /\ op = "shapefile_to_grid") =>
        /\ out.status = "ok"
        /\ Ascending(out.xs) /\ Ascending(out.ys)
        /\ Range(out.xs) = {samples[t][1] : t \in 1 .. Len(samples)}
        /\ Range(out.ys) = {samples[t][2] : t \in 1 .. Len(samples)}
        /\ Shape(out.Z) = <<Len(out.ys), Len(out.xs)>>
        /\ \A c \in Cells(out.Z.M, out.Z.N) :
              LET h == Hits(out.xs[c[2] + 1], out.ys[c[1] + 1])
              IN  out.Z.v[c] = IF h = {} THEN NaN ELSE samples[SetMax(h)][3]

\* Samples given in descending x order, two of them at one position with
\* different values, and a grid cell without a sample.
C10_Witness ==
    /\ pc = "done" /\ op = "shapefile_to_grid"
    /\ Len(samples) >= 3
    /\ samples[1][1] > samples[2][1]
    /\ \E t \in 1 .. Len(samples), u \in 1 .. Len(samples) :
          /\ t < u
          /\ samples[t][1] = samples[u][1] /\ samples[t][2] = samples[u][2]
          /\ samples[t][3] # samples[u][3]
    /\ \E c \in Cells(out.Z.M, out.Z.N) : IsNaN(out.Z.v[c])

====
